---- MODULE Spec2Model ----
(***************************************************************************)
(* A model of scantree's _path.py: RecursionPath (the per-visit path       *)
(* record of a directory walk) and DirEntryReplacement (the caching        *)
(* stand-in for a native DirEntry), over a small POSIX filesystem with     *)
(* directories, regular files, symbolic links and search permissions.      *)
(*                                                                         *)
(* Path strings are sequences of one-character strings, so that join,      *)
(* basename, split and realpath are computed on text as posixpath does.    *)
(***************************************************************************)
EXTENDS Integers, Sequences, FiniteSets, TLC

(***************************************************************************)
(* Bounds of the model.                                                    *)
(***************************************************************************)
\* symbolic links the kernel follows in one lookup before it gives ELOOP
MaxLinkHops == 3
\* how often one OS query may be issued for one entry before the model stops
MaxOsCalls == 2
\* how many changes the filesystem undergoes in one behaviour
MaxFsChanges == 1
\* how deep below the root node a walk descends
MaxDepth == 3

(***************************************************************************)
(* Text: posixpath's string functions.                                     *)
(***************************************************************************)
Sep == <<"/">>
Dot == <<".">>
DotDot == <<".", ".">>
Empty == <<>>

IsAbs(s) == Len(s) > 0 /\ s[1] = "/"

EndsWithSep(s) == Len(s) > 0 /\ s[Len(s)] = "/"

\* os.path.join(a, b)
Join(a, b) ==
    IF IsAbs(b) THEN b
    ELSE IF a = Empty \/ EndsWithSep(a) THEN a \o b
    ELSE a \o Sep \o b

\* the index of the first "/" of s, or 0
RECURSIVE Find(_, _)
Find(s, i) ==
    IF i > Len(s) THEN 0
    ELSE IF s[i] = "/" THEN i
    ELSE Find(s, i + 1)

\* the index of the last "/" of s, or 0 (str.rfind + 1)
RECURSIVE RFind(_, _)
RFind(s, i) ==
    IF i = 0 THEN 0
    ELSE IF s[i] = "/" THEN i
    ELSE RFind(s, i - 1)

\* str.partition(sep): the text before the first "/" and the text after it
Partition(s) ==
    LET i == Find(s, 1)
    IN  IF i = 0 THEN [name |-> s, rest |-> Empty]
        ELSE [name |-> SubSeq(s, 1, i - 1), rest |-> SubSeq(s, i + 1, Len(s))]

\* str.split(sep)
RECURSIVE StrSplit(_)
StrSplit(s) ==
    LET i == Find(s, 1)
    IN  IF i = 0 THEN <<s>>
        ELSE <<SubSeq(s, 1, i - 1)>> \o StrSplit(SubSeq(s, i + 1, Len(s)))

\* str.rstrip(sep)
RECURSIVE RStrip(_)
RStrip(s) == IF EndsWithSep(s) THEN RStrip(SubSeq(s, 1, Len(s) - 1)) ELSE s

AllSep(s) == \A i \in 1..Len(s) : s[i] = "/"

\* os.path.basename(p)
Basename(p) == SubSeq(p, RFind(p, Len(p)) + 1, Len(p))

\* os.path.split(p)
PathSplit(p) ==
    LET i == RFind(p, Len(p))
        head == SubSeq(p, 1, i)
    IN  [head |-> IF head # Empty /\ ~AllSep(head) THEN RStrip(head) ELSE head,
         tail |-> SubSeq(p, i + 1, Len(p))]

\* sep.join(comps)
RECURSIVE SepJoin(_)
SepJoin(comps) ==
    IF comps = <<>> THEN Empty
    ELSE IF Len(comps) = 1 THEN comps[1]
    ELSE comps[1] \o Sep \o SepJoin(Tail(comps))

\* the loop of os.path.normpath over the components
RECURSIVE NormComps(_, _, _)
NormComps(comps, new, initial) ==
    IF comps = <<>> THEN new
    ELSE LET comp == Head(comps)
         IN  IF comp = Empty \/ comp = Dot THEN NormComps(Tail(comps), new, initial)
             ELSE IF comp # DotDot
                     \/ (initial = 0 /\ new = <<>>)
                     \/ (new # <<>> /\ new[Len(new)] = DotDot)
                  THEN NormComps(Tail(comps), Append(new, comp), initial)
             ELSE IF new # <<>>
                  THEN NormComps(Tail(comps), SubSeq(new, 1, Len(new) - 1), initial)
             ELSE NormComps(Tail(comps), new, initial)

\* os.path.normpath(path)
Normpath(path) ==
    IF path = Empty THEN Dot
    ELSE LET initial ==
                 IF ~IsAbs(path) THEN 0
                 ELSE IF Len(path) >= 2 /\ path[2] = "/" /\ ~(Len(path) >= 3 /\ path[3] = "/")
                      THEN 2
                 ELSE 1
             body == SepJoin(NormComps(StrSplit(path), <<>>, initial))
             out == (IF initial = 2 THEN Sep \o Sep ELSE IF initial = 1 THEN Sep ELSE Empty)
                    \o body
         IN  IF out = Empty THEN Dot ELSE out

\* the number of path components of a relative path
NumComponents(p) == IF p = Empty THEN 0 ELSE Len(StrSplit(p))

(***************************************************************************)
(* The filesystem: inodes with a kind, directory entries (name, inode),    *)
(* a symlink target, the parent directory and the search/read permission.  *)
(***************************************************************************)
Dir(ents, par) == [kind |-> "dir", ents |-> ents, target |-> Empty, par |-> par, x |-> TRUE]
File == [kind |-> "file", ents |-> {}, target |-> Empty, par |-> 0, x |-> TRUE]
Link(target) == [kind |-> "link", ents |-> {}, target |-> target, par |-> 0, x |-> TRUE]

\*  /            1
\*  /r           2      /r/a      4     /r/a/b -> /t    10
\*  /t           3      /r/f      5     /r/a/u -> /r    11
\*  /t/x  /t/y   7, 8   /r/l -> a 6     /r/d -> /q      12 (dangling)
\*  /t/z         9      /r/g -> /r/f    13
\*  /t/z/w -> w  16 (a symlink loop)
\*  14, 15: a regular file and a directory not linked anywhere yet
BaseFs ==
    << Dir({<<"r", 2>>, <<"t", 3>>}, 1),
       Dir({<<"a", 4>>, <<"f", 5>>, <<"l", 6>>, <<"d", 12>>, <<"g", 13>>}, 1),
       Dir({<<"x", 7>>, <<"y", 8>>, <<"z", 9>>}, 1),
       Dir({<<"b", 10>>, <<"u", 11>>}, 2),
       File,
       Link(<<"a">>),
       File,
       File,
       Dir({<<"w", 16>>}, 3),
       Link(<<"/", "t">>),
       Link(<<"/", "r">>),
       Link(<<"/", "q">>),
       Link(<<"/", "r", "/", "f">>),
       File,
       Dir({}, 0),
       Link(<<"w">>) >>

Inodes == DOMAIN BaseFs

\* the process's working directory
CwdPath == <<"/", "r", "/", "a">>

OsOk(i) == [err |-> "OK", ino |-> i]
OsErr(e) == [err |-> e, ino |-> 0]

\* the inode a name is bound to in directory d, or 0
Child(f, d, name) ==
    IF \E e \in f[d].ents : <<e[1]>> = name
    THEN (CHOOSE e \in f[d].ents : <<e[1]>> = name)[2]
    ELSE 0

\* the kernel's path walk from directory cur over the remaining components
RECURSIVE Namei(_, _, _, _, _)
Namei(f, cur, comps, follow, hops) ==
    IF comps = <<>> THEN OsOk(cur)
    ELSE IF f[cur].kind # "dir" THEN OsErr("ENOTDIR")
    ELSE IF ~f[cur].x THEN OsErr("EACCES")
    ELSE LET c == Head(comps)
             rest == Tail(comps)
         IN  IF c = Empty \/ c = Dot THEN Namei(f, cur, rest, follow, hops)
             ELSE IF c = DotDot THEN Namei(f, f[cur].par, rest, follow, hops)
             ELSE LET i == Child(f, cur, c)
                  IN  IF i = 0 THEN OsErr("ENOENT")
                      ELSE IF f[i].kind # "link" THEN Namei(f, i, rest, follow, hops)
                      ELSE IF rest = <<>> /\ ~follow THEN OsOk(i)
                      ELSE IF hops = 0 THEN OsErr("ELOOP")
                      ELSE Namei(f, IF IsAbs(f[i].target) THEN 1 ELSE cur,
                                 StrSplit(f[i].target) \o rest, follow, hops - 1)

\* the inode of the working directory, entered before the walk starts
CwdIno == Namei(BaseFs, 1, StrSplit(CwdPath), TRUE, MaxLinkHops).ino

\* stat(2) (follow) and lstat(2) (not follow) of a path string
Lookup(f, path, follow) ==
    IF path = Empty THEN OsErr("ENOENT")
    ELSE Namei(f, IF IsAbs(path) THEN 1 ELSE CwdIno, StrSplit(path), follow, MaxLinkHops)

StatResult(f, i) == [tag |-> "stat", st_ino |-> i, st_mode |-> f[i].kind]
OSError(e) == [tag |-> "OSError", errno |-> e]
BoolVal(b) == [tag |-> "bool", v |-> b]
IntVal(n) == [tag |-> "int", v |-> n]
None == [tag |-> "None"]

\* what stat(2) or lstat(2) hands back for the outcome r of a lookup
StatOf(f, r) == IF r.err = "OK" THEN StatResult(f, r.ino) ELSE OSError(r.err)

\* os.stat(path): a stat result, or OSError raised
OsStat(f, path) == StatOf(f, Lookup(f, path, TRUE))

\* os.lstat(path)
OsLstat(f, path) == StatOf(f, Lookup(f, path, FALSE))

\* genericpath: os.stat succeeded and S_ISxxx(st_mode); OSError is answered False
ModeIs(s, kind) == s.tag = "stat" /\ s.st_mode = kind

\* os.path.exists, isdir, isfile, islink
OsExists(f, path) == OsStat(f, path).tag = "stat"
OsIsdir(f, path) == ModeIs(OsStat(f, path), "dir")
OsIsfile(f, path) == ModeIs(OsStat(f, path), "file")
OsIslink(f, path) == ModeIs(OsLstat(f, path), "link")

\* os.readlink(path)
OsReadlink(f, path) == f[Lookup(f, path, FALSE).ino].target

(***************************************************************************)
(* os.path.realpath: posixpath._joinrealpath followed by abspath.          *)
(***************************************************************************)
RECURSIVE JoinRealpath(_, _, _, _)
RECURSIVE JoinRealpathLoop(_, _, _, _)

Resolved(path, ok, seen) == [path |-> path, ok |-> ok, seen |-> seen]

\* name == pardir
JoinRealpathUp(f, path, sp, rest, seen) ==
    JoinRealpathLoop(f,
        IF sp.tail = DotDot THEN Join(Join(sp.head, DotDot), DotDot) ELSE sp.head,
        rest, seen)

\* after the recursive call r on the link's target
JoinRealpathLink(f, newpath, rest, r) ==
    IF ~r.ok THEN Resolved(Join(r.path, rest), FALSE, r.seen)
    ELSE JoinRealpathLoop(f, r.path, rest,
             [r.seen EXCEPT ![newpath] = [done |-> TRUE, path |-> r.path]])

\* newpath = join(path, name)
JoinRealpathName(f, path, newpath, rest, seen) ==
    IF ~OsIslink(f, newpath) THEN JoinRealpathLoop(f, newpath, rest, seen)
    ELSE IF newpath \in DOMAIN seen
         THEN IF seen[newpath].done
              THEN JoinRealpathLoop(f, seen[newpath].path, rest, seen)
              ELSE Resolved(Join(newpath, rest), FALSE, seen)
    ELSE JoinRealpathLink(f, newpath, rest,
             JoinRealpath(f, path, OsReadlink(f, newpath),
                          seen @@ (newpath :> [done |-> FALSE, path |-> Empty])))

\* one turn of the while loop: p = rest.partition(sep)
JoinRealpathStep(f, path, p, seen) ==
    IF p.name = Empty \/ p.name = Dot THEN JoinRealpathLoop(f, path, p.rest, seen)
    ELSE IF p.name = DotDot
         THEN IF path # Empty THEN JoinRealpathUp(f, path, PathSplit(path), p.rest, seen)
              ELSE JoinRealpathLoop(f, DotDot, p.rest, seen)
    ELSE JoinRealpathName(f, path, Join(path, p.name), p.rest, seen)

JoinRealpathLoop(f, path, rest, seen) ==
    IF rest = Empty THEN Resolved(path, TRUE, seen)
    ELSE JoinRealpathStep(f, path, Partition(rest), seen)

JoinRealpath(f, path, rest, seen) ==
    IF IsAbs(rest) THEN JoinRealpathLoop(f, Sep, Tail(rest), seen)
    ELSE JoinRealpathLoop(f, path, rest, seen)

\* os.path.abspath(path)
Abspath(path) == Normpath(IF IsAbs(path) THEN path ELSE Join(CwdPath, path))

\* os.path.realpath(path)
Realpath(f, path) == Abspath(JoinRealpath(f, Empty, path, <<>>).path)

(***************************************************************************)
(* DirEntryReplacement.  A method is an operator from the filesystem and   *)
(* an object o = [self, calls] (the entry's fields and how often each OS   *)
(* query was issued for it) to [self, calls, ret]: the fields and counts   *)
(* after the call and what it returned; an OSError in ret is raised.       *)
(***************************************************************************)
NoCalls == [isdir |-> 0, isfile |-> 0, islink |-> 0, stat |-> 0, lstat |-> 0]

\* cls(path, name): the attrs-generated constructor
DirEntryReplacement(path, name) ==
    [path |-> path, name |-> name,
     _is_dir |-> None, _is_file |-> None, _is_symlink |-> None,
     _stat_sym |-> None, _stat_nosym |-> None]

IOError(msg) == [tag |-> "IOError", msg |-> msg]

Raised(v) == v.tag \in {"OSError", "IOError"}

\* a variant: the name is taken from the normalised text of the path, links unresolved
NameOfUnresolved(f, path, basename) ==
    IF basename \in {Empty, Dot, DotDot} THEN Basename(Abspath(path)) ELSE basename

\* the name from_path gives the entry
NameOf(f, path, basename) ==
    IF basename \in {Empty, Dot, DotDot} THEN Basename(Realpath(f, path)) ELSE basename

\* a variant: the path is not checked for existence
from_path_unchecked(f, path) ==
    [tag |-> "entry", entry |-> DirEntryReplacement(path, NameOf(f, path, Basename(path)))]

\* a variant: existence is that of the directory entry, a link not followed
from_path_lexists(f, path) ==
    IF OsLstat(f, path).tag # "stat" THEN IOError("does not exist")
    ELSE [tag |-> "entry", entry |-> DirEntryReplacement(path, NameOf(f, path, Basename(path)))]

\* DirEntryReplacement.from_path: the new entry, or IOError raised
from_path(f, path) ==
    IF ~OsExists(f, path) THEN IOError("does not exist")
    ELSE [tag |-> "entry", entry |-> DirEntryReplacement(path, NameOf(f, path, Basename(path)))]

\* a variant: the name is taken from the path again instead of copied
from_dir_entry_basename(dir_entry) == DirEntryReplacement(dir_entry.path, Basename(dir_entry.path))

\* DirEntryReplacement.from_dir_entry
from_dir_entry(dir_entry) == DirEntryReplacement(dir_entry.path, dir_entry.name)

\* what a method leaves behind: the fields, the counts and the return value
Result(self, calls, ret) == [self |-> self, calls |-> calls, ret |-> ret]

\* self.<field> = os.<query>(self.path), where the query answered r: nothing is
\* assigned when the query raised
Assign(o, field, query, r) ==
    Result(IF Raised(r) THEN o.self ELSE [o.self EXCEPT ![field] = r],
           [o.calls EXCEPT ![query] = @ + 1],
           r)

\* return self.<field>
Cached(o, field) == Result(o.self, o.calls, o.self[field])

\* a variant: the cache is not consulted
is_symlink_uncached(f, o) ==
    Assign(o, "_is_symlink", "islink", BoolVal(OsIslink(f, o.self.path)))

\* DirEntryReplacement.is_symlink
is_symlink(f, o) ==
    IF o.self._is_symlink = None
    THEN Assign(o, "_is_symlink", "islink", BoolVal(OsIslink(f, o.self.path)))
    ELSE Cached(o, "_is_symlink")

\* ... and not self.is_symlink()
NotSymlink(o) == Result(o.self, o.calls, BoolVal(~o.ret.v))

\* a variant: follow_symlinks is ignored
ReturnTypeFollowing(f, o, follow_symlinks) == o

\* the return of is_dir and is_file, o.ret being the cached follow answer
ReturnType(f, o, follow_symlinks) ==
    IF follow_symlinks THEN o
    ELSE IF ~o.ret.v THEN o
    ELSE NotSymlink(is_symlink(f, o))

\* a variant: is_dir asks the OS on every call
is_dir_uncached(f, o, follow_symlinks) ==
    ReturnType(f, Assign(o, "_is_dir", "isdir", BoolVal(OsIsdir(f, o.self.path))),
               follow_symlinks)

\* DirEntryReplacement.is_dir
is_dir(f, o, follow_symlinks) ==
    ReturnType(f,
               IF o.self._is_dir = None
               THEN Assign(o, "_is_dir", "isdir", BoolVal(OsIsdir(f, o.self.path)))
               ELSE Cached(o, "_is_dir"),
               follow_symlinks)

\* DirEntryReplacement.is_file
is_file(f, o, follow_symlinks) ==
    ReturnType(f,
               IF o.self._is_file = None
               THEN Assign(o, "_is_file", "isfile", BoolVal(OsIsfile(f, o.self.path)))
               ELSE Cached(o, "_is_file"),
               follow_symlinks)

\* a variant: a failed os.stat is cached and returned as the result
stat_caching_failure(f, o, follow_symlinks) ==
    IF follow_symlinks
    THEN IF o.self._stat_sym = None
         THEN Result([o.self EXCEPT !._stat_sym = OsStat(f, o.self.path)],
                     [o.calls EXCEPT !.stat = @ + 1], OsStat(f, o.self.path))
         ELSE Cached(o, "_stat_sym")
    ELSE IF o.self._stat_nosym = None
         THEN Result([o.self EXCEPT !._stat_nosym = OsLstat(f, o.self.path)],
                     [o.calls EXCEPT !.lstat = @ + 1], OsLstat(f, o.self.path))
         ELSE Cached(o, "_stat_nosym")

\* DirEntryReplacement.stat
stat(f, o, follow_symlinks) ==
    IF follow_symlinks
    THEN IF o.self._stat_sym = None
         THEN Assign(o, "_stat_sym", "stat", OsStat(f, o.self.path))
         ELSE Cached(o, "_stat_sym")
    ELSE IF o.self._stat_nosym = None
         THEN Assign(o, "_stat_nosym", "lstat", OsLstat(f, o.self.path))
         ELSE Cached(o, "_stat_nosym")

\* <stat result>.st_ino
StIno(o) == Result(o.self, o.calls, IF Raised(o.ret) THEN o.ret ELSE IntVal(o.ret.st_ino))

\* DirEntryReplacement.inode
inode(f, o) == StIno(stat(f, o, FALSE))

\* the five queries, by name
Methods == {"is_dir", "is_file", "is_symlink", "stat", "inode"}

\* whether a method takes follow_symlinks
TakesFollow(m) == m \in {"is_dir", "is_file", "stat"}

\* getattr(entry, method)(**kwargs)
Call(f, o, m, follow_symlinks) ==
    CASE m = "is_dir" -> is_dir(f, o, follow_symlinks)
      [] m = "is_file" -> is_file(f, o, follow_symlinks)
      [] m = "is_symlink" -> is_symlink(f, o)
      [] m = "stat" -> stat(f, o, follow_symlinks)
      [] m = "inode" -> inode(f, o)

(***************************************************************************)
(* A native os.DirEntry, as os.scandir yields it where the directory       *)
(* stream gives each entry's type: [kind, path, name, d_type, d_ino].  Its *)
(* own stat caches are left out: they cannot be seen while the filesystem  *)
(* stays as it was when the entry was yielded.                             *)
(***************************************************************************)
IsNative(x) == "d_type" \in DOMAIN x

\* isinstance(x, (DirEntryReplacement, DirEntry))
IsEntry(x) == "name" \in DOMAIN x

\* an object of another kind, here the str of a path
Str(path) == [tag |-> "str", v |-> path]

\* DirEntry.stat
DirEntryStat(f, e, follow_symlinks) ==
    IF follow_symlinks /\ e.d_type = "link" THEN OsStat(f, e.path) ELSE OsLstat(f, e.path)

\* the mode test on a stat that DirEntry.is_dir and is_file fall back to for a
\* symlink: FileNotFoundError is answered False, any other OSError is raised
DirEntryModeIs(s, kind) ==
    IF Raised(s) THEN (IF s.errno = "ENOENT" THEN BoolVal(FALSE) ELSE s)
    ELSE BoolVal(s.st_mode = kind)

\* DirEntry.is_dir (kind "dir") and DirEntry.is_file (kind "file")
DirEntryTestMode(f, e, follow_symlinks, kind) ==
    IF follow_symlinks /\ e.d_type = "link"
    THEN DirEntryModeIs(OsStat(f, e.path), kind)
    ELSE BoolVal(e.d_type = kind)

\* getattr(entry, method)(**kwargs) on a native DirEntry
NativeCall(f, e, m, follow_symlinks) ==
    CASE m = "is_dir" -> DirEntryTestMode(f, e, follow_symlinks, "dir")
      [] m = "is_file" -> DirEntryTestMode(f, e, follow_symlinks, "file")
      [] m = "is_symlink" -> BoolVal(e.d_type = "link")
      [] m = "stat" -> DirEntryStat(f, e, follow_symlinks)
      [] m = "inode" -> IntVal(e.d_ino)

\* getattr(other, method)(**kwargs), other being of either kind
CallOn(f, o, m, follow_symlinks) ==
    IF IsNative(o.self)
    THEN Result(o.self, o.calls, NativeCall(f, o.self, m, follow_symlinks))
    ELSE Call(f, o, m, follow_symlinks)

\* a variant: only the type queries are compared
EqChecksTypesOnly ==
    << <<"is_dir", TRUE>>, <<"is_dir", FALSE>>, <<"is_file", TRUE>>, <<"is_file", FALSE>>,
       <<"is_symlink", TRUE>> >>

\* the (method, follow_symlinks) pairs __eq__ compares, in its order
EqChecks ==
    << <<"is_dir", TRUE>>, <<"is_dir", FALSE>>, <<"is_file", TRUE>>, <<"is_file", FALSE>>,
       <<"is_symlink", TRUE>>, <<"stat", TRUE>>, <<"stat", FALSE>>, <<"inode", TRUE>> >>

\* what __eq__ leaves behind: both objects and True, False or the error raised
EqResult(this, that, ret) ==
    [self |-> this.self, calls |-> this.calls, other |-> that.self, ret |-> ret]

\* the loop of __eq__ from its i-th pair on; this_res and other_res are the
\* objects after the i-th call on each, with what the call returned
RECURSIVE EqLoop(_, _, _, _)
EqCompare(f, this_res, other_res, i) ==
    IF Raised(other_res.ret) THEN EqResult(this_res, other_res, other_res.ret)
    ELSE IF this_res.ret # other_res.ret THEN EqResult(this_res, other_res, BoolVal(FALSE))
    ELSE EqLoop(f, this_res, other_res, i + 1)

EqOther(f, this_res, other, i) ==
    IF Raised(this_res.ret) THEN EqResult(this_res, other, this_res.ret)
    ELSE EqCompare(f, this_res, CallOn(f, other, EqChecks[i][1], EqChecks[i][2]), i)

EqLoop(f, self, other, i) ==
    IF i > Len(EqChecks) THEN EqResult(self, other, BoolVal(TRUE))
    ELSE EqOther(f, Call(f, self, EqChecks[i][1], EqChecks[i][2]), other, i)

\* DirEntryReplacement.__eq__
__eq__(f, self, other) ==
    IF ~IsEntry(other.self) THEN EqResult(self, other, BoolVal(FALSE))
    ELSE IF self.self.path # other.self.path THEN EqResult(self, other, BoolVal(FALSE))
    ELSE IF self.self.name # other.self.name THEN EqResult(self, other, BoolVal(FALSE))
    ELSE EqLoop(f, self, other, 1)

(***************************************************************************)
(* RecursionPath.  A node owns either a DirEntryReplacement, held by       *)
(* reference into the heap, or a native DirEntry as os.scandir yields it.  *)
(***************************************************************************)
Ref(id) == [kind |-> "DirEntryReplacement", id |-> id]

\* a variant: the entry's path is the text given to scandir followed by the name
DirEntryUnjoined(f, path, e) ==
    [kind |-> "DirEntry", path |-> path \o <<e[1]>>, name |-> <<e[1]>>,
     d_type |-> f[e[2]].kind, d_ino |-> e[2]]

\* the DirEntry os.scandir(path) yields for the directory entry (name, inode)
DirEntry(f, path, e) ==
    [kind |-> "DirEntry", path |-> Join(path, <<e[1]>>), name |-> <<e[1]>>,
     d_type |-> f[e[2]].kind, d_ino |-> e[2]]

\* cls(root, relative, real, dir_entry): the attrs-generated constructor
RecursionPath(root, relative, real, dir_entry) ==
    [root |-> root, relative |-> relative, real |-> real, dir_entry |-> dir_entry]

\* a variant: the root's real path is its path as given
from_root_unresolved(f, dir_entry, path) == RecursionPath(path, Empty, path, dir_entry)

\* RecursionPath.from_root, given the entry it is to own and that entry's path
from_root(f, dir_entry, path) == RecursionPath(path, Empty, Realpath(f, path), dir_entry)

\* a variant: the walk's root instead of the node's own directory
absolute_root(self) == self.root

\* RecursionPath.absolute
absolute(self) == Join(self.root, self.relative)

\* RecursionPath.name and RecursionPath.path, h being the heap
NodeName(h, self) ==
    IF self.dir_entry.kind = "DirEntry" THEN self.dir_entry.name ELSE h[self.dir_entry.id].name
NodePath(h, self) ==
    IF self.dir_entry.kind = "DirEntry" THEN self.dir_entry.path ELSE h[self.dir_entry.id].path

\* a variant: the child's real path is never canonicalized
_join_unresolved(f, self, dir_entry) ==
    [self EXCEPT !.relative = Join(self.relative, dir_entry.name),
                 !.real = Join(self.real, dir_entry.name),
                 !.dir_entry = dir_entry]

\* a variant: the child's relative path is its name alone
_join_name_only(f, self, dir_entry) ==
    [self EXCEPT !.relative = dir_entry.name,
                 !.real = IF dir_entry.d_type = "link"
                          THEN Realpath(f, Join(self.real, dir_entry.name))
                          ELSE Join(self.real, dir_entry.name),
                 !.dir_entry = dir_entry]

\* a variant: the child's root is the directory it was found in
_join_rerooted(f, self, dir_entry) ==
    [self EXCEPT !.root = Join(self.root, self.relative),
                 !.relative = dir_entry.name,
                 !.real = IF dir_entry.d_type = "link"
                          THEN Realpath(f, Join(self.real, dir_entry.name))
                          ELSE Join(self.real, dir_entry.name),
                 !.dir_entry = dir_entry]

\* RecursionPath._join for a native DirEntry, whose is_symlink() is its d_type
_join(f, self, dir_entry) ==
    LET relative == Join(self.relative, dir_entry.name)
        real == Join(self.real, dir_entry.name)
    IN  [self EXCEPT !.relative = relative,
                     !.real = IF dir_entry.d_type = "link" THEN Realpath(f, real) ELSE real,
                     !.dir_entry = dir_entry]

\* a variant: an owned DirEntryReplacement is pickled as it is, caches included
_getstate_with_caches(h, self) ==
    [tag |-> "state", root |-> self.root, relative |-> self.relative, real |-> self.real,
     dir_entry |-> IF self.dir_entry.kind = "DirEntry"
                   THEN from_dir_entry(self.dir_entry) ELSE h[self.dir_entry.id]]

\* RecursionPath._getstate: the tuple pickled for a node, h being the heap
_getstate(h, self) ==
    [tag |-> "state", root |-> self.root, relative |-> self.relative, real |-> self.real,
     dir_entry |-> from_dir_entry(IF self.dir_entry.kind = "DirEntry"
                                  THEN self.dir_entry ELSE h[self.dir_entry.id])]

\* the object unpickling allocates before it calls __setstate__: no field is set
BlankNode == RecursionPath(None, None, None, None)

\* RecursionPath._setstate; dir_entry is the reference to the unpickled entry
\* state[3], which is a new object
_setstate(self, state, dir_entry) ==
    [self EXCEPT !.root = state.root, !.relative = state.relative, !.real = state.real,
                 !.dir_entry = dir_entry]

\* os.scandir(path): the open directory's entries, or OSError raised
Opendir(f, r) ==
    IF r.err # "OK" THEN OSError(r.err)
    ELSE IF f[r.ino].kind # "dir" THEN OSError("ENOTDIR")
    ELSE IF ~f[r.ino].x THEN OSError("EACCES")
    ELSE [tag |-> "dir", ino |-> r.ino, ents |-> f[r.ino].ents]

OsScandir(f, path) == Opendir(f, Lookup(f, path, TRUE))

NoIter == [state |-> "none", open |-> FALSE, path |-> Empty, pending |-> {}]

(***************************************************************************)
(* The state.                                                              *)
(***************************************************************************)
VARIABLES
    fs,         \* the filesystem: inode -> kind, entries, target, parent, permission
    nchanges,   \* how many times the filesystem was changed
    heap,       \* the DirEntryReplacement objects, by reference
    calls,      \* per object, how often each OS query was issued for it
    ret,        \* the last call: what was called, on which object, what it returned
    chain,      \* the walk: the root node and the nodes descended into, in order
    it,         \* the lazy sequence scandir() returned for the last node of chain
    kids,       \* the children that sequence has yielded so far, in order
    copy        \* the node unpickled last, and the node of chain it was pickled from

vars == <<fs, nchanges, heap, calls, ret, chain, it, kids, copy>>

entryVars == <<heap, calls>>
walkVars == <<chain, it, kids, copy>>

\* the paths callers construct entries and root nodes from
Paths ==
    { <<"/", "r">>, <<"/", "r", "/">>, <<"/", "t">>,
      <<"/", "r", "/", "a">>, <<"/", "r", "/", "f">>,
      <<"/", "r", "/", "l">>, <<"/", "r", "/", "g">>,
      <<"/", "r", "/", "d">>, <<"/", "q">> }

\* paths whose basename is empty, '.' or '..'
EdgePaths ==
    { <<".">>, <<".", ".">>, <<"/">>, <<"/", "r", "/", ".">>,
      <<"/", "r", "/", "a", "/", ".", ".">>, <<"/", "r", "/", "l", "/">> }

Last(seq) == seq[Len(seq)]

\* what the caller sees of a call: the operation, whether it was called on the
\* entry or through a node, the object, the path argument, follow_symlinks, the
\* value returned or the error raised, and the OS queries the call issued
Returned(op, via, obj, arg, follow, val, issued) ==
    [op |-> op, via |-> via, obj |-> obj, arg |-> arg, follow |-> follow,
     val |-> val, issued |-> issued]
\* the paths entries are constructed from while the filesystem changes
ChangingPaths ==
    { <<"/", "r", "/", "a">>, <<"/", "r", "/", "f">>, <<"/", "r", "/", "l">>, <<"/", "q">> }

NoRet == Returned("none", "none", 0, Empty, FALSE, None, {})

Init ==
    /\ fs = BaseFs
    /\ nchanges = 0
    /\ heap = <<>>
    /\ calls = <<>>
    /\ ret = NoRet
    /\ chain = <<>>
    /\ it = NoIter
    /\ kids = <<>>
    /\ copy = None

\* the entry r is allocated, unless r is an error raised
Allocate(op, via, path, r) ==
    IF Raised(r)
    THEN /\ ret' = Returned(op, via, 0, path, FALSE, r, {})
         /\ UNCHANGED entryVars
    ELSE /\ heap' = Append(heap, r.entry)
         /\ calls' = Append(calls, NoCalls)
         /\ ret' = Returned(op, via, Len(heap) + 1, path, FALSE, [tag |-> "object"], {})

\* DirEntryReplacement.from_path(path), called directly
FromPath(path) ==
    /\ heap = <<>>
    /\ Allocate("from_path", "DirEntryReplacement", path, from_path(fs, path))
    /\ UNCHANGED <<fs, nchanges, walkVars>>

\* RecursionPath.from_root(directory) for a plain path
FromRoot(path) ==
    /\ chain = <<>>
    /\ heap = <<>>
    /\ Allocate("from_root", "RecursionPath", path, from_path(fs, path))
    /\ chain' = IF Len(heap') > Len(heap)
                THEN <<from_root(fs, Ref(Len(heap')), Last(heap').path)>>
                ELSE chain
    /\ UNCHANGED <<fs, nchanges, it, kids, copy>>

\* the method returned r: the object, the counts and the caller see it
InvokeDone(id, m, follow, via, r) ==
    /\ \A q \in DOMAIN r.calls : r.calls[q] <= MaxOsCalls
    /\ heap' = [heap EXCEPT ![id] = r.self]
    /\ calls' = [calls EXCEPT ![id] = r.calls]
    /\ ret' = Returned(m, via, id, Empty, follow, r.ret,
                       {q \in DOMAIN r.calls : r.calls[q] > calls[id][q]})

\* entry.method(follow_symlinks) on the DirEntryReplacement with reference id,
\* called on the entry itself or through the node that owns it
Invoke(id, m, follow, via) ==
    /\ TakesFollow(m) \/ follow
    /\ InvokeDone(id, m, follow, via,
                  Call(fs, [self |-> heap[id], calls |-> calls[id]], m, follow))
    /\ UNCHANGED <<fs, nchanges, walkVars>>

\* DirEntryReplacement.is_dir, is_file, is_symlink, stat, inode
Query(id, m, follow) ==
    /\ id \in DOMAIN heap
    /\ Invoke(id, m, follow, "DirEntryReplacement")

\* RecursionPath.is_dir, is_file, is_symlink, stat, inode: the root node's
\* passthrough to the DirEntryReplacement it owns
NodeQuery(m, follow) ==
    /\ chain # <<>>
    /\ chain[1].dir_entry.kind = "DirEntryReplacement"
    /\ Invoke(chain[1].dir_entry.id, m, follow, "RecursionPath")

\* entry == DirEntryReplacement.from_dir_entry(entry): the entry compared with
\* a fresh copy of itself, which is dropped afterwards
Compare(id) ==
    /\ id \in DOMAIN heap
    /\ InvokeDone(id, "__eq__", TRUE, "DirEntryReplacement",
                  __eq__(fs, [self |-> heap[id], calls |-> calls[id]],
                         [self |-> from_dir_entry(heap[id]), calls |-> NoCalls]))
    /\ UNCHANGED <<fs, nchanges, walkVars>>

\* the entry a node owns, as an operand of a call: the object and its counts
Owned(h, c, node) ==
    IF node.dir_entry.kind = "DirEntry"
    THEN [self |-> node.dir_entry, calls |-> NoCalls]
    ELSE [self |-> h[node.dir_entry.id], calls |-> c[node.dir_entry.id]]

\* the reference of the entry a node owns, 0 for a native DirEntry
OwnedId(node) == IF node.dir_entry.kind = "DirEntry" THEN 0 ELSE node.dir_entry.id

\* __eq__ returned r for the entry id and the operand named by with, which is
\* the entry oid, or an object out of the heap when oid is 0
CompareDone(id, oid, with, r) ==
    /\ \A q \in DOMAIN r.calls : r.calls[q] <= MaxOsCalls
    /\ heap' = IF oid = 0
               THEN [heap EXCEPT ![id] = r.self]
               ELSE [heap EXCEPT ![id] = r.self, ![oid] = r.other]
    /\ calls' = [calls EXCEPT ![id] = r.calls]
    /\ ret' = Returned("__eq__", "DirEntryReplacement", id, with, TRUE, r.ret,
                       {q \in DOMAIN r.calls : r.calls[q] > calls[id][q]})

\* the objects an entry is compared with: a new from_dir_entry copy of it, the
\* native DirEntry a scandir of its directory yields now, the str of its path,
\* and entries that differ from it in name or in path
OperandKinds == {"copy", "DirEntry", "str", "renamed", "moved"}

\* the native DirEntry for path, r being what the lookup of path finds
NativeFor(f, path, r) == DirEntry(f, PathSplit(path).head, <<Basename(path)[1], r.ino>>)

Operand(f, e, kind) ==
    CASE kind = "copy" -> from_dir_entry(e)
      [] kind = "DirEntry" -> NativeFor(f, e.path, Lookup(f, e.path, FALSE))
      [] kind = "str" -> Str(e.path)
      [] kind = "renamed" -> DirEntryReplacement(e.path, <<"other">>)
      [] kind = "moved" -> DirEntryReplacement(Join(<<"/", "t">>, e.name), e.name)

\* entry == other, for each kind of other; a native DirEntry is there only while
\* the path is
CompareWith(id, kind) ==
    /\ id \in DOMAIN heap
    /\ kind = "DirEntry" =>
          /\ Lookup(fs, heap[id].path, FALSE).err = "OK"
          /\ Basename(heap[id].path) \notin {Empty, Dot, DotDot}
    /\ CompareDone(id, 0, <<kind>>,
                   __eq__(fs, [self |-> heap[id], calls |-> calls[id]],
                          [self |-> Operand(fs, heap[id], kind), calls |-> NoCalls]))
    /\ UNCHANGED <<fs, nchanges, walkVars>>

\* unpickled.entry == original.entry, for the node unpickled and the node it was
\* pickled from
CompareOriginal ==
    /\ copy # None
    /\ CompareDone(copy.node.dir_entry.id, OwnedId(chain[copy.of]), <<"original">>,
                   __eq__(fs, Owned(heap, calls, copy.node), Owned(heap, calls, chain[copy.of])))
    /\ UNCHANGED <<fs, nchanges, walkVars>>

\* unpickled.entry == DirEntryReplacement.from_path(unpickled.path); r is what
\* from_path gave
CompareFreshDone(id, r) ==
    IF Raised(r)
    THEN /\ ret' = Returned("__eq__", "DirEntryReplacement", id, <<"from_path">>, TRUE, r, {})
         /\ UNCHANGED entryVars
    ELSE CompareDone(id, 0, <<"from_path">>,
                     __eq__(fs, [self |-> heap[id], calls |-> calls[id]],
                            [self |-> r.entry, calls |-> NoCalls]))

CompareFresh ==
    /\ copy # None
    /\ CompareFreshDone(copy.node.dir_entry.id, from_path(fs, heap[copy.node.dir_entry.id].path))
    /\ UNCHANGED <<fs, nchanges, walkVars>>

\* pickling the last node of the chain: RecursionPath.__getstate__; the call's
\* object is the node, named by its place in the chain
Getstate ==
    /\ chain # <<>>
    /\ ret' = Returned("_getstate", "RecursionPath", Len(chain), Empty, TRUE,
                       _getstate(heap, Last(chain)), {})
    /\ UNCHANGED <<fs, nchanges, entryVars, walkVars>>

\* unpickling the state pickled last: a blank node and a new entry object are
\* allocated and RecursionPath.__setstate__ fills the node in
Setstate ==
    /\ ret.op = "_getstate"
    /\ copy = None
    /\ heap' = Append(heap, ret.val.dir_entry)
    /\ calls' = Append(calls, NoCalls)
    /\ copy' = [of |-> ret.obj, node |-> _setstate(BlankNode, ret.val, Ref(Len(heap) + 1))]
    /\ ret' = Returned("_setstate", "RecursionPath", Len(heap) + 1, Empty, TRUE, None, {})
    /\ UNCHANGED <<fs, nchanges, chain, it, kids>>

(***************************************************************************)
(* The environment: other processes change the directory /r.               *)
(***************************************************************************)
\* the directory that changes, and the unlinked inodes a name can be rebound to
ChangeDir == CHOOSE d \in Inodes : <<"r", d>> \in BaseFs[1].ents
SpareInodes == {i \in Inodes : \A d \in Inodes : \A e \in BaseFs[d].ents : e[2] # i} \ {1}

\* unlink or rmdir: the name disappears
FsUnlink(name) ==
    /\ nchanges < MaxFsChanges
    /\ \E e \in fs[ChangeDir].ents :
          /\ e[1] = name
          /\ fs' = [fs EXCEPT ![ChangeDir].ents = @ \ {e}]
    /\ nchanges' = nchanges + 1
    /\ UNCHANGED <<entryVars, ret, walkVars>>

\* rename over the name: it is now another file or directory
FsReplace(name, i) ==
    /\ nchanges < MaxFsChanges
    /\ i \in SpareInodes
    /\ \A d \in Inodes : \A e \in fs[d].ents : e[2] # i
    /\ fs' = [fs EXCEPT ![ChangeDir].ents = {e \in @ : e[1] # name} \cup {<<name, i>>},
                        ![i].par = ChangeDir]
    /\ nchanges' = nchanges + 1
    /\ UNCHANGED <<entryVars, ret, walkVars>>

\* chmod a-rx, chmod a+rx: the directory can no longer, or can again, be
\* searched and read
FsChmod ==
    /\ fs' = [fs EXCEPT ![ChangeDir].x = ~@]
    /\ UNCHANGED <<nchanges, entryVars, ret, walkVars>>

\* the names in it that change: a directory (also the target of the symlink l) and a regular file
Names == {"a", "f"}

(***************************************************************************)
(* The walk.                                                               *)
(***************************************************************************)
\* os.scandir(path) answered r
ScandirDone(path, r) ==
    IF Raised(r)
    THEN /\ ret' = Returned("scandir", "RecursionPath", 0, path, FALSE, r, {})
         /\ it' = NoIter
    ELSE /\ ret' = Returned("scandir", "RecursionPath", 0, path, FALSE, [tag |-> "generator"], {})
         /\ it' = [state |-> "active", open |-> TRUE, path |-> path, pending |-> r.ents]

\* RecursionPath.scandir() on the last node: the generator expression opens
\* the directory at once and builds no child yet
Scandir ==
    /\ chain # <<>>
    /\ it.state # "active" /\ ~it.open
    /\ ScandirDone(absolute(Last(chain)), OsScandir(fs, absolute(Last(chain))))
    /\ kids' = <<>>
    /\ UNCHANGED <<fs, nchanges, entryVars, chain, copy>>

\* a variant: the entry yielded stays in the sequence
NextChildAgain ==
    /\ it.state = "active"
    /\ \E e \in it.pending :
          /\ kids' = Append(kids, _join(fs, Last(chain), DirEntry(fs, it.path, e)))
          /\ ret' = Returned("next", "RecursionPath", 0, Empty, FALSE, [tag |-> "node"], {})
    /\ UNCHANGED <<fs, nchanges, entryVars, chain, copy, it>>

\* next() on the sequence: one more child, or StopIteration, which a sequence
\* that is exhausted raises again
NextChild ==
    /\ it.state \in {"active", "exhausted"}
    /\ IF it.pending = {}
       THEN /\ it' = [it EXCEPT !.state = "exhausted", !.open = FALSE]
            /\ ret' = Returned("next", "RecursionPath", 0, Empty, FALSE, [tag |-> "StopIteration"], {})
            /\ UNCHANGED kids
       ELSE \E e \in it.pending :
               /\ kids' = Append(kids, _join(fs, Last(chain), DirEntry(fs, it.path, e)))
               /\ it' = [it EXCEPT !.pending = @ \ {e}]
               /\ ret' = Returned("next", "RecursionPath", 0, Empty, FALSE, [tag |-> "node"], {})
    /\ UNCHANGED <<fs, nchanges, entryVars, chain, copy>>

\* the caller drops the sequence before it is exhausted
Abandon ==
    /\ it.state = "active"
    /\ it' = [it EXCEPT !.state = "abandoned"]
    /\ UNCHANGED <<fs, nchanges, entryVars, ret, chain, kids, copy>>

\* the runtime finalizes the dropped sequence and with it the directory handle
Collect ==
    /\ it.state = "abandoned" /\ it.open
    /\ it' = [it EXCEPT !.open = FALSE]
    /\ UNCHANGED <<fs, nchanges, entryVars, ret, chain, kids, copy>>

\* the caller goes on with the k-th child it was given
Descend(k) ==
    /\ k \in DOMAIN kids
    /\ it.state # "active" /\ ~it.open
    /\ Len(chain) <= MaxDepth
    /\ chain' = Append(chain, kids[k])
    /\ it' = NoIter
    /\ kids' = <<>>
    /\ UNCHANGED <<fs, nchanges, entryVars, ret, copy>>

\* a variant: the root node is given a copy of the entry, not the entry
FromRootEntryCopied(id) ==
    /\ chain = <<>>
    /\ id \in DOMAIN heap
    /\ heap' = Append(heap, from_dir_entry(heap[id]))
    /\ calls' = Append(calls, NoCalls)
    /\ chain' = <<from_root(fs, Ref(Len(heap) + 1), heap[id].path)>>
    /\ ret' = Returned("from_root", "RecursionPath", id, <<"DirEntryReplacement">>, FALSE,
                       [tag |-> "object"], {})
    /\ UNCHANGED <<fs, nchanges, it, kids, copy>>

\* RecursionPath.from_root(directory), directory being the DirEntryReplacement
\* with reference id
FromRootEntry(id) ==
    /\ chain = <<>>
    /\ id \in DOMAIN heap
    /\ chain' = <<from_root(fs, Ref(id), heap[id].path)>>
    /\ ret' = Returned("from_root", "RecursionPath", id, <<"DirEntryReplacement">>, FALSE,
                       [tag |-> "object"], {})
    /\ UNCHANGED <<fs, nchanges, entryVars, it, kids, copy>>

\* the native DirEntry an earlier os.scandir gave for path, on the filesystem
\* as it was at first
NativeOf(path) == NativeFor(BaseFs, path, Lookup(BaseFs, path, FALSE))

\* RecursionPath.from_root(directory), directory being a native DirEntry
FromRootNative(path) ==
    /\ chain = <<>>
    /\ heap = <<>>
    /\ chain' = <<from_root(fs, NativeOf(path), NativeOf(path).path)>>
    /\ ret' = Returned("from_root", "RecursionPath", 0, <<"DirEntry">> \o path, FALSE,
                       [tag |-> "object"], {})
    /\ UNCHANGED <<fs, nchanges, entryVars, it, kids, copy>>

(***************************************************************************)
(* Specifications.                                                         *)
(***************************************************************************)
Construct ==
    \/ \E p \in Paths \cup EdgePaths : FromPath(p)
    \/ \E p \in Paths : FromRoot(p)

EntryQueries == \E id \in DOMAIN heap, m \in Methods, follow \in BOOLEAN : Query(id, m, follow)

NodeQueries == \E m \in Methods, follow \in BOOLEAN : NodeQuery(m, follow)

Comparisons == \E id \in DOMAIN heap : Compare(id)

OperandComparisons == \E id \in DOMAIN heap, kind \in OperandKinds : CompareWith(id, kind)

FsChange ==
    \/ \E n \in Names : FsUnlink(n)
    \/ \E n \in Names, i \in SpareInodes : FsReplace(n, i)
    \/ FsChmod

Walk ==
    \/ Scandir
    \/ NextChild
    \/ Abandon
    \/ Collect
    \/ \E k \in DOMAIN kids : Descend(k)

\* a root node and its entry on a filesystem that other processes change
Next ==
    \/ \E p \in ChangingPaths : FromRoot(p)
    \/ EntryQueries
    \/ OperandComparisons
    \/ Getstate
    \/ FsChange

Spec == Init /\ [][Next]_vars

\* entries and root nodes on a filesystem that does not change
StableNext == Construct \/ EntryQueries \/ NodeQueries \/ Comparisons \/ Getstate

StableSpec == Init /\ [][StableNext]_vars

\* a walk from a root node on a filesystem that does not change
WalkNext == (\E p \in Paths : FromRoot(p)) \/ Walk

WalkSpec == Init /\ [][WalkNext]_vars

\* the walk's steps that lead to new nodes, taken while nothing was unpickled
Descents ==
    /\ copy = None
    /\ (Scandir \/ NextChild \/ \E k \in DOMAIN kids : Descend(k))

\* the roots of the walks whose nodes are pickled: a directory, the same with a
\* trailing separator, a symlink to a directory, and another directory
NodePaths == {<<"/", "r">>, <<"/", "r", "/">>, <<"/", "r", "/", "l">>, <<"/", "t">>}

\* one node of a walk is pickled and unpickled and entries are compared, on a
\* filesystem that does not change
NodeNext ==
    \/ \E p \in NodePaths : FromRoot(p)
    \/ Descents
    \/ (copy = None /\ Comparisons)
    \/ (copy = None /\ Getstate)
    \/ Setstate
    \/ CompareOriginal
    \/ CompareFresh

NodeSpec == Init /\ [][NodeNext]_vars

\* entries made from a path, root nodes made from a path, from an entry that
\* was queried before and from a native DirEntry, and the pickling of the root
\* node, on a filesystem that changes
RootNext ==
    \/ \E p \in ChangingPaths : FromPath(p)
    \/ \E p \in ChangingPaths : FromRoot(p)
    \/ \E id \in DOMAIN heap : FromRootEntry(id)
    \/ \E p \in ChangingPaths \ {<<"/", "q">>} : FromRootNative(p)
    \/ (chain = <<>> /\ EntryQueries)
    \/ Getstate
    \/ FsChange

RootSpec == Init /\ [][RootNext]_vars

(***************************************************************************)
(* What the filesystem itself answers for a query on a path, computed from *)
(* the kernel's lookup alone and from no cache.                            *)
(***************************************************************************)
KindOf(f, path, follow) ==
    IF Lookup(f, path, follow).err = "OK" THEN f[Lookup(f, path, follow).ino].kind ELSE "none"

Answer(f, path, m, follow) ==
    CASE m = "is_dir" ->
            BoolVal(KindOf(f, path, TRUE) = "dir" /\ (follow \/ KindOf(f, path, FALSE) # "link"))
      [] m = "is_file" ->
            BoolVal(KindOf(f, path, TRUE) = "file" /\ (follow \/ KindOf(f, path, FALSE) # "link"))
      [] m = "is_symlink" -> BoolVal(KindOf(f, path, FALSE) = "link")
      [] m = "stat" -> StatOf(f, Lookup(f, path, follow))
      [] m = "inode" -> IF Lookup(f, path, FALSE).err = "OK"
                        THEN IntVal(Lookup(f, path, FALSE).ino)
                        ELSE OSError(Lookup(f, path, FALSE).err)

OsQueries == {"isdir", "isfile", "islink", "stat", "lstat"}
CacheFields == {"_is_dir", "_is_file", "_is_symlink", "_stat_sym", "_stat_nosym"}

\* the path's stat and lstat both succeed
QueriesSucceed(f, path) ==
    Lookup(f, path, TRUE).err = "OK" /\ Lookup(f, path, FALSE).err = "OK"

(***************************************************************************)
(* C1  Cache-once.  On a filesystem that does not change, for an entry     *)
(* whose OS queries succeed, every call of is_dir, is_file, is_symlink,    *)
(* stat and inode, on the entry or through the node that owns it, returns  *)
(* what the filesystem answers for its arguments (so the same as the first *)
(* call with these arguments), and each of isdir, isfile, islink, stat and *)
(* lstat was issued at most once for the entry.                            *)
(***************************************************************************)
CacheOnce ==
    \A id \in DOMAIN heap :
        QueriesSucceed(fs, heap[id].path) =>
            /\ \A q \in OsQueries : calls[id][q] <= 1
            /\ (ret.op \in Methods /\ ret.obj = id) =>
                   ret.val = Answer(fs, heap[id].path, ret.op, ret.follow)

\* through the owning node, is_dir(follow_symlinks=False) of the symlink /r/l
\* is answered from the caches, after all five OS queries were issued once
CacheOnceWitness ==
    /\ ret.op = "is_dir" /\ ~ret.follow /\ ret.via = "RecursionPath"
    /\ ret.issued = {}
    /\ ret.val = BoolVal(FALSE)
    /\ heap[ret.obj].path = <<"/", "r", "/", "l">>
    /\ \A q \in OsQueries : calls[ret.obj][q] = 1
\* what a call must return when the caches e holds already decide it, else None
FromCache(e, m, follow) ==
    CASE m = "is_dir" /\ follow -> e._is_dir
      [] m = "is_dir" /\ ~follow ->
            IF e._is_dir = None THEN None
            ELSE IF ~e._is_dir.v THEN BoolVal(FALSE)
            ELSE IF e._is_symlink = None THEN None
            ELSE BoolVal(~e._is_symlink.v)
      [] m = "is_file" /\ follow -> e._is_file
      [] m = "is_file" /\ ~follow ->
            IF e._is_file = None THEN None
            ELSE IF ~e._is_file.v THEN BoolVal(FALSE)
            ELSE IF e._is_symlink = None THEN None
            ELSE BoolVal(~e._is_symlink.v)
      [] m = "is_symlink" -> e._is_symlink
      [] m = "stat" /\ follow -> e._stat_sym
      [] m = "stat" /\ ~follow -> e._stat_nosym
      [] m = "inode" -> IF e._stat_nosym = None THEN None ELSE IntVal(e._stat_nosym.st_ino)
      [] OTHER -> None

\* this step is a call of one of the five queries on the entry id that issued an
\* OS query
QueriedIn(id) ==
    /\ id \in DOMAIN heap /\ id \in DOMAIN heap'
    /\ calls'[id] # calls[id]
    /\ ret'.obj = id /\ ret'.op \in Methods

(***************************************************************************)
(* C2  Write-once caches.  While other processes remove, replace and       *)
(* re-permission the path, a populated cache field of an entry is never    *)
(* changed or reset by a later step (a query, a comparison with ==, the    *)
(* pickling of the owning node), and a later query that the populated      *)
(* caches decide returns the value they hold.                              *)
(***************************************************************************)
WriteOnce ==
    [][\A id \in DOMAIN heap :
          /\ id \in DOMAIN heap'
          /\ \A fld \in CacheFields : heap[id][fld] # None => heap'[id][fld] = heap[id][fld]
          /\ (ret'.obj = id /\ FromCache(heap[id], ret'.op, ret'.follow) # None)
                => ret'.val = FromCache(heap[id], ret'.op, ret'.follow)]_vars

\* is_dir() is answered True from the cache although the path is no directory
\* any more
WriteOnceWitness ==
    /\ ret.op = "is_dir" /\ ret.follow /\ ret.issued = {}
    /\ ret.val = BoolVal(TRUE)
    /\ heap[ret.obj]._is_dir = BoolVal(TRUE)
    /\ Answer(fs, heap[ret.obj].path, "is_dir", TRUE) = BoolVal(FALSE)

(***************************************************************************)
(* C3  Type-query failures are never cached as a value.  When the OS query *)
(* behind is_dir, is_file or is_symlink fails, the call raises and leaves  *)
(* its cache field unset: the code does not do this, os.path.isdir, isfile *)
(* and islink answer False for a failed stat and that False is cached.     *)
(***************************************************************************)
TypeFailureRaises ==
    [][\A id \in DOMAIN heap :
          QueriedIn(id) =>
              /\ ("isdir" \in ret'.issued /\ Raised(OsStat(fs, heap[id].path)))
                    => (Raised(ret'.val) /\ heap'[id]._is_dir = None)
              /\ ("isfile" \in ret'.issued /\ Raised(OsStat(fs, heap[id].path)))
                    => (Raised(ret'.val) /\ heap'[id]._is_file = None)
              /\ ("islink" \in ret'.issued /\ Raised(OsLstat(fs, heap[id].path)))
                    => (Raised(ret'.val) /\ heap'[id]._is_symlink = None)]_vars

(***************************************************************************)
(* C4  Stat failures fail loudly and are not cached.  A stat() or inode()  *)
(* call whose cache is unset issues os.stat (follow) or os.lstat (no       *)
(* follow) each time; when that fails the error is raised and no field of  *)
(* the entry changes, when it succeeds the result is returned and cached   *)
(* for that follow mode, and the cache of the other mode is never touched. *)
(***************************************************************************)
StatFailsLoudly ==
    [][\A id \in DOMAIN heap :
          (id \in DOMAIN heap' /\ ret'.obj = id /\ ret'.op \in {"stat", "inode"}
             /\ (heap' # heap \/ calls' # calls \/ ret' # ret)) =>
              LET follow == ret'.op = "stat" /\ ret'.follow
                  mine == IF follow THEN "_stat_sym" ELSE "_stat_nosym"
                  other == IF follow THEN "_stat_nosym" ELSE "_stat_sym"
                  query == IF follow THEN "stat" ELSE "lstat"
                  answer == StatOf(fs, Lookup(fs, heap[id].path, follow))
              IN  /\ heap'[id][other] = heap[id][other]
                  /\ \A fld \in {"_is_dir", "_is_file", "_is_symlink"} :
                        heap'[id][fld] = heap[id][fld]
                  /\ heap[id][mine] = None =>
                        /\ ret'.issued = {query}
                        /\ calls'[id][query] = calls[id][query] + 1
                        /\ Raised(answer) => (Raised(ret'.val) /\ ret'.val = answer
                                              /\ heap'[id] = heap[id])
                        /\ ~Raised(answer) => heap'[id][mine] = answer]_vars

\* os.stat failed once for the entry, was issued again and its result is cached
\* now, while the no-follow cache is still unset
StatFailsLoudlyWitness ==
    /\ ret.op = "stat" /\ ret.follow /\ ret.issued = {"stat"}
    /\ calls[ret.obj].stat = 2
    /\ heap[ret.obj]._stat_sym = ret.val /\ ~Raised(ret.val)
    /\ heap[ret.obj]._stat_nosym = None
\* the path names nothing: not even an lstat finds it
Missing(f, path) == Lookup(f, path, FALSE).err \in {"ENOENT", "ENOTDIR"}

(***************************************************************************)
(* C5  Missing-path failure.  from_path(p), and from_root(p) for a plain   *)
(* path p, raise 'does not exist' whenever p does not exist when they are  *)
(* called; then no entry and no node is produced and no OS query is        *)
(* counted for any cache.                                                  *)
(***************************************************************************)
MissingPathFails ==
    [][(/\ ret'.op \in {"from_path", "from_root"}
        /\ (ret' # ret \/ heap' # heap \/ chain' # chain)
        /\ Missing(fs, ret'.arg))
          => /\ ret'.val = IOError("does not exist")
             /\ heap' = heap /\ calls' = calls /\ chain' = chain
             /\ heap' = <<>> /\ chain' = <<>>]_vars

\* from_root of the missing path /q raised and left nothing behind
MissingPathFailsWitness ==
    /\ ret.op = "from_root" /\ ret.arg = <<"/", "q">>
    /\ Raised(ret.val)
    /\ heap = <<>> /\ chain = <<>>

(***************************************************************************)
(* C6  Non-follow semantics.  In every state of an entry, whatever was     *)
(* called before, is_dir(False) = is_dir(True) and not is_symlink(), and   *)
(* is_file(False) = is_file(True) and not is_symlink(); a symlink to a     *)
(* directory is a directory only when followed, a symlink to a regular     *)
(* file is a file only when followed, and a path that is no symlink gets   *)
(* the same answer in both modes.                                          *)
(***************************************************************************)
NonFollow ==
    \A id \in DOMAIN heap :
        LET o == [self |-> heap[id], calls |-> calls[id]]
            path == heap[id].path
            dirT == is_dir(fs, o, TRUE).ret.v
            dirF == is_dir(fs, o, FALSE).ret.v
            fileT == is_file(fs, o, TRUE).ret.v
            fileF == is_file(fs, o, FALSE).ret.v
            link == is_symlink(fs, o).ret.v
        IN  /\ dirF = (dirT /\ ~link)
            /\ fileF = (fileT /\ ~link)
            /\ (ret.obj = id /\ ret.op = "is_dir" /\ ~ret.follow) => ret.val = BoolVal(dirT /\ ~link)
            /\ (ret.obj = id /\ ret.op = "is_file" /\ ~ret.follow) => ret.val = BoolVal(fileT /\ ~link)
            /\ (KindOf(fs, path, FALSE) = "link" /\ KindOf(fs, path, TRUE) = "dir")
                  => (dirT /\ ~dirF)
            /\ (KindOf(fs, path, FALSE) = "link" /\ KindOf(fs, path, TRUE) = "file")
                  => (fileT /\ ~fileF)
            /\ KindOf(fs, path, FALSE) # "link" => (dirT = dirF /\ fileT = fileF)

\* is_file(follow_symlinks=False) of /r/g, a symlink to a regular file, returned
\* False while the follow answer in the cache is True
NonFollowWitness ==
    /\ ret.op = "is_file" /\ ~ret.follow /\ ret.val = BoolVal(FALSE)
    /\ heap[ret.obj].path = <<"/", "r", "/", "g">>
    /\ heap[ret.obj]._is_file = BoolVal(TRUE)
    /\ heap[ret.obj]._is_symlink = BoolVal(TRUE)
(***************************************************************************)
(* The walk's nodes: every (parent, child) pair scandir() has produced,    *)
(* and the root-to-node chains.                                            *)
(***************************************************************************)
Pairs ==
    {<<chain[i], chain[i + 1]>> : i \in 1..(Len(chain) - 1)}
        \cup {<<Last(chain), kids[k]>> : k \in DOMAIN kids}

\* the chain down to the last node, and down to each child it was given
Chains == {chain} \cup {Append(chain, kids[k]) : k \in DOMAIN kids}

IsLinkNode(f, h, node) == KindOf(f, NodePath(h, node), FALSE) = "link"

\* the text of a symlink's target, read from its directory parentreal
TargetFrom(f, h, parentreal, node) == Join(parentreal, OsReadlink(f, NodePath(h, node)))

(***************************************************************************)
(* C7  Real-path accumulation.  Each child scandir() produces has          *)
(* real = join(parent.real, name), as it stands when the child is no       *)
(* symlink and canonicalized when it is one, which is the canonical        *)
(* resolution of the symlink's target; in the chain /r -> a -> b, with b a *)
(* symlink to /t, a.real = join(root.real, "a") and b.real = /t, outside   *)
(* the root.                                                               *)
(***************************************************************************)
RealAccumulates ==
    /\ \A pc \in Pairs :
          LET joined == Join(pc[1].real, NodeName(heap, pc[2]))
          IN  IF IsLinkNode(fs, heap, pc[2])
              THEN /\ pc[2].real = Realpath(fs, joined)
                   /\ pc[2].real = Realpath(fs, TargetFrom(fs, heap, pc[1].real, pc[2]))
              ELSE pc[2].real = joined
    /\ \A c \in Chains :
          (/\ Len(c) >= 3
           /\ c[1].root = <<"/", "r">>
           /\ NodeName(heap, c[2]) = <<"a">>
           /\ NodeName(heap, c[3]) = <<"b">>)
              => /\ c[2].real = Join(c[1].real, <<"a">>)
                 /\ c[2].real = <<"/", "r", "/", "a">>
                 /\ c[3].real = <<"/", "t">>

\* the walk is at /r -> a -> b: a is a plain directory, b a symlink out of /r
RealAccumulatesWitness ==
    /\ Len(chain) = 3
    /\ chain[1].root = <<"/", "r">>
    /\ ~IsLinkNode(fs, heap, chain[2]) /\ NodeName(heap, chain[2]) = <<"a">>
    /\ IsLinkNode(fs, heap, chain[3]) /\ NodeName(heap, chain[3]) = <<"b">>
    /\ chain[3].real = <<"/", "t">>

\* no proper or improper prefix of an absolute path is a symlink
RECURSIVE NoLinkIn(_, _, _)
NoLinkIn(f, prefix, comps) ==
    IF comps = <<>> THEN TRUE
    ELSE /\ KindOf(f, Join(prefix, Head(comps)), FALSE) # "link"
         /\ NoLinkIn(f, Join(prefix, Head(comps)), Tail(comps))

\* the location a node denotes: what the kernel finds at join(root, relative),
\* if it gets there within its limit of symlinks
Location(f, node) == Lookup(f, Join(node.root, node.relative), TRUE)

(***************************************************************************)
(* C8  Loop detection data is sound.  Every node of a walk has real equal  *)
(* to the canonical path of its absolute path: realpath(absolute), which,  *)
(* where the node resolves, has no symlink in it and names the very inode  *)
(* absolute resolves to.  So on one root-to-node chain, a symlink node     *)
(* that resolves to an ancestor's location has that ancestor's real, and   *)
(* two nodes with equal real, both within the kernel's reach, denote one   *)
(* location.                                                               *)
(***************************************************************************)
CanonicalNode(n) ==
    LET loc == Location(fs, n)
    IN  /\ n.real = Realpath(fs, Join(n.root, n.relative))
        /\ loc.err = "OK" =>
              /\ NoLinkIn(fs, Sep, Tail(StrSplit(n.real)))
              /\ Lookup(fs, n.real, FALSE) = loc

\* a is an ancestor of d on one chain
SoundPair(a, d) ==
    LET la == Location(fs, a)
        ld == Location(fs, d)
    IN  /\ (IsLinkNode(fs, heap, d) /\ ld.err = "OK" /\ ld = la) => d.real = a.real
        /\ (d.real = a.real /\ ld.err = "OK" /\ la.err = "OK") => ld = la

RealIsCanonical ==
    /\ \A i \in DOMAIN chain : CanonicalNode(chain[i])
    /\ \A k \in DOMAIN kids : CanonicalNode(kids[k])
    /\ \A i, j \in DOMAIN chain : i < j => SoundPair(chain[i], chain[j])
    /\ \A i \in DOMAIN chain : \A k \in DOMAIN kids : SoundPair(chain[i], kids[k])

\* /r -> l -> u: through the symlink l the walk met the symlink u, which leads
\* back to the root, and u.real is the root's real
RealIsCanonicalWitness ==
    /\ Len(chain) = 3
    /\ chain[1].root = <<"/", "r">>
    /\ IsLinkNode(fs, heap, chain[2]) /\ IsLinkNode(fs, heap, chain[3])
    /\ chain[3].real = chain[1].real
    /\ chain[3].relative = <<"l", "/", "u">>

\* the names of the nodes below the root of a chain, in order
NamesBelowRoot(h, c) == [i \in 1..(Len(c) - 1) |-> NodeName(h, c[i + 1])]

(***************************************************************************)
(* C9  Relative-path independence from symlinks.  The root node has        *)
(* relative = "", and a node N descents below it has a relative path of    *)
(* exactly N components: the names of the entries descended through, in    *)
(* order, joined by "/", whether or not they are symlinks.                 *)
(***************************************************************************)
RelativeByNames ==
    \A c \in Chains :
        \A i \in DOMAIN c :
            /\ c[i].relative = SepJoin(NamesBelowRoot(heap, SubSeq(c, 1, i)))
            /\ NumComponents(c[i].relative) = i - 1
            /\ (i = 1) = (c[i].relative = Empty)

\* three descents, two of them through symlinks: relative is l/u/a while real
\* is /r/a
RelativeByNamesWitness ==
    /\ Len(chain) = 4
    /\ chain[4].relative = <<"l", "/", "u", "/", "a">>
    /\ chain[4].real = <<"/", "r", "/", "a">>
    /\ NumComponents(chain[4].relative) = 3

\* the entries of the directory the last node's absolute path leads to
Listing(f, node) == f[Location(f, node).ino].ents

(***************************************************************************)
(* C10  Enumeration completeness.  The children of a scandir() sequence    *)
(* are distinct entries of the directory at the node's absolute path, each *)
(* named as its entry with relative = join(parent.relative, name); once    *)
(* the sequence is exhausted there is exactly one child per entry.  For    *)
(* the root /t, which holds x, y and z, that is three children named and   *)
(* with relative x, y, z.                                                  *)
(***************************************************************************)
EnumerationComplete ==
    /\ it.state \in {"active", "exhausted", "abandoned"} =>
          /\ \A k \in DOMAIN kids :
                /\ \E e \in Listing(fs, Last(chain)) : NodeName(heap, kids[k]) = <<e[1]>>
                /\ kids[k].relative = Join(Last(chain).relative, NodeName(heap, kids[k]))
                /\ kids[k].dir_entry.name = Basename(kids[k].dir_entry.path)
          /\ \A k, l \in DOMAIN kids : NodeName(heap, kids[k]) = NodeName(heap, kids[l]) => k = l
    /\ it.state = "exhausted" =>
          /\ Len(kids) = Cardinality(Listing(fs, Last(chain)))
          /\ {NodeName(heap, kids[k]) : k \in DOMAIN kids}
                = {<<e[1]>> : e \in Listing(fs, Last(chain))}
          /\ (Len(chain) = 1 /\ chain[1].root = <<"/", "t">>) =>
                /\ Len(kids) = 3
                /\ {NodeName(heap, kids[k]) : k \in DOMAIN kids} = {<<"x">>, <<"y">>, <<"z">>}
                /\ {kids[k].relative : k \in DOMAIN kids} = {<<"x">>, <<"y">>, <<"z">>}

\* scandir() on the root /t was consumed to the end and gave three children
EnumerationCompleteWitness ==
    /\ it.state = "exhausted"
    /\ Len(chain) = 1 /\ chain[1].root = <<"/", "t">>
    /\ Len(kids) = 3

(***************************************************************************)
(* C11  Directory-handle release.  Whenever the sequence scandir()         *)
(* returned is finished or was abandoned by its caller, the directory      *)
(* handle behind it is closed.  The code does not do this: the generator   *)
(* expression neither closes os.scandir's iterator nor holds it in a with   *)
(* block, so an abandoned sequence keeps the handle open until the runtime *)
(* finalizes it.                                                           *)
(***************************************************************************)
HandleReleased == it.state \in {"exhausted", "abandoned"} => ~it.open

\* the node of the chain a _getstate call was made on
Pickled(r) == chain[r.obj]

(***************************************************************************)
(* C12  Serialization drops cached state and never carries a native        *)
(* handle.  The state _getstate produces for a node is (root, relative,    *)
(* real, entry) with entry a DirEntryReplacement of the owned entry's path *)
(* and name and all five caches unset, whether the node owns a native      *)
(* DirEntry or a DirEntryReplacement with populated caches; producing it   *)
(* changes no node and no entry; __setstate__ gives the unpickled node     *)
(* exactly the four components and changes nothing else.                   *)
(***************************************************************************)
StateDropsCaches ==
    [][/\ (ret'.op = "_getstate" /\ ret' # ret) =>
             /\ ret'.val.root = Pickled(ret').root
             /\ ret'.val.relative = Pickled(ret').relative
             /\ ret'.val.real = Pickled(ret').real
             /\ "d_type" \notin DOMAIN ret'.val.dir_entry
             /\ ret'.val.dir_entry.path = NodePath(heap, Pickled(ret'))
             /\ ret'.val.dir_entry.name = NodeName(heap, Pickled(ret'))
             /\ \A fld \in CacheFields : ret'.val.dir_entry[fld] = None
             /\ heap' = heap /\ chain' = chain /\ kids' = kids
       /\ (ret'.op = "_setstate" /\ copy' # copy) =>
             /\ copy'.node.root = ret.val.root
             /\ copy'.node.relative = ret.val.relative
             /\ copy'.node.real = ret.val.real
             /\ heap'[copy'.node.dir_entry.id] = ret.val.dir_entry
             /\ \A id \in DOMAIN heap : heap'[id] = heap[id]
             /\ chain' = chain /\ kids' = kids]_vars

\* the root's entry has every cache populated, and the entry of the node just
\* unpickled from the root has none
StateDropsCachesWitness ==
    /\ ret.op = "_setstate" /\ copy # None /\ copy.of = 1
    /\ chain[1].dir_entry.kind = "DirEntryReplacement"
    /\ \A fld \in CacheFields : heap[chain[1].dir_entry.id][fld] # None
    /\ \A fld \in CacheFields : heap[copy.node.dir_entry.id][fld] = None

\* the unpickled node has the fields of the node it was pickled from
SameFields ==
    /\ copy.node.root = chain[copy.of].root
    /\ copy.node.relative = chain[copy.of].relative
    /\ copy.node.real = chain[copy.of].real

\* the last call compared the unpickled node's entry with the original's entry
\* or with from_path of its path
RoundTripCompared ==
    /\ copy # None
    /\ ret.op = "__eq__" /\ ret.obj = copy.node.dir_entry.id
    /\ ret.arg \in {<<"original">>, <<"from_path">>}

(***************************************************************************)
(* C13  Equality round-trip.  On a filesystem that does not change, a node *)
(* unpickled from the pickled state of a node of a walk has that node's    *)
(* root, relative and real, and its entry compares equal with == to the    *)
(* node's owned entry and to from_path of its path.  This fails for a      *)
(* child that is a dangling symlink: stat raises inside ==, and from_path  *)
(* refuses the path.                                                       *)
(***************************************************************************)
RoundTripEqual ==
    /\ copy # None => SameFields
    /\ RoundTripCompared => ret.val = BoolVal(TRUE)

\* C13 as it holds: the same, for a node whose path leads, through symlinks, to
\* an existing file or directory
RoundTripEqualWhereExists ==
    /\ copy # None => SameFields
    /\ (RoundTripCompared /\ OsExists(fs, heap[copy.node.dir_entry.id].path))
          => ret.val = BoolVal(TRUE)

\* the child /r/l, a symlink owned as a native DirEntry, was pickled and
\* unpickled, and its entry compared equal to from_path("/r/l")
RoundTripEqualWhereExistsWitness ==
    /\ RoundTripCompared /\ ret.arg = <<"from_path">> /\ ret.val = BoolVal(TRUE)
    /\ copy.of = 2 /\ IsNative(chain[2].dir_entry)
    /\ heap[copy.node.dir_entry.id].path = <<"/", "r", "/", "l">>
    /\ heap[copy.node.dir_entry.id]._is_symlink = BoolVal(TRUE)

\* what one of the five OS queries answers for the entry e: what its cache
\* holds, or, the cache being unset, what the filesystem says now
Primitive(f, e, fld) ==
    IF e[fld] # None THEN e[fld]
    ELSE CASE fld = "_is_dir" -> BoolVal(KindOf(f, e.path, TRUE) = "dir")
           [] fld = "_is_file" -> BoolVal(KindOf(f, e.path, TRUE) = "file")
           [] fld = "_is_symlink" -> BoolVal(KindOf(f, e.path, FALSE) = "link")
           [] fld = "_stat_sym" -> StatOf(f, Lookup(f, e.path, TRUE))
           [] fld = "_stat_nosym" -> StatOf(f, Lookup(f, e.path, FALSE))

\* the result of a query on an operand x of ==, an entry of either kind
QueryResult(f, x, m, follow) ==
    IF IsNative(x) THEN NativeCall(f, x, m, follow)
    ELSE CASE m = "is_dir" ->
                BoolVal(Primitive(f, x, "_is_dir").v
                          /\ (follow \/ ~Primitive(f, x, "_is_symlink").v))
           [] m = "is_file" ->
                BoolVal(Primitive(f, x, "_is_file").v
                          /\ (follow \/ ~Primitive(f, x, "_is_symlink").v))
           [] m = "is_symlink" -> Primitive(f, x, "_is_symlink")
           [] m = "stat" -> Primitive(f, x, IF follow THEN "_stat_sym" ELSE "_stat_nosym")
           [] m = "inode" -> IF Raised(Primitive(f, x, "_stat_nosym"))
                             THEN Primitive(f, x, "_stat_nosym")
                             ELSE IntVal(Primitive(f, x, "_stat_nosym").st_ino)

\* the eight queries of the deep-equality contract
EightQueries ==
    {<<"is_dir", TRUE>>, <<"is_dir", FALSE>>, <<"is_file", TRUE>>, <<"is_file", FALSE>>,
     <<"is_symlink", TRUE>>, <<"stat", TRUE>>, <<"stat", FALSE>>, <<"inode", TRUE>>}

\* every one of the eight queries gives a result on both operands, the same
AllAgree(f, e, o) ==
    \A q \in EightQueries :
        /\ ~Raised(QueryResult(f, e, q[1], q[2]))
        /\ ~Raised(QueryResult(f, o, q[1], q[2]))
        /\ QueryResult(f, e, q[1], q[2]) = QueryResult(f, o, q[1], q[2])

\* this step is entry == other for the entry id and one of the kinds of operand
ComparedIn(id) ==
    /\ id \in DOMAIN heap'
    /\ ret'.op = "__eq__" /\ ret'.obj = id
    /\ ret'.arg # Empty /\ ret'.arg[1] \in OperandKinds
    /\ (ret' # ret \/ heap' # heap \/ calls' # calls)

(***************************************************************************)
(* C14  Deep equality.  entry == other answers True exactly when other is  *)
(* a DirEntryReplacement or a native DirEntry with the entry's path and    *)
(* name and each of the eight queries gives the same result on both; it    *)
(* answers False for an object of another kind; and it changes no cache    *)
(* that was populated, while the filesystem changes between the calls.     *)
(***************************************************************************)
DeepEquality ==
    [][\A id \in DOMAIN heap :
          ComparedIn(id) =>
              /\ (ret'.val = BoolVal(TRUE)) <=>
                    /\ IsEntry(Operand(fs, heap[id], ret'.arg[1]))
                    /\ Operand(fs, heap[id], ret'.arg[1]).path = heap[id].path
                    /\ Operand(fs, heap[id], ret'.arg[1]).name = heap[id].name
                    /\ AllAgree(fs, heap[id], Operand(fs, heap[id], ret'.arg[1]))
              /\ ~IsEntry(Operand(fs, heap[id], ret'.arg[1])) => ret'.val = BoolVal(FALSE)
              /\ \A fld \in CacheFields :
                    heap[id][fld] # None => heap'[id][fld] = heap[id][fld]]_vars

\* the entry, whose cache says directory, compared unequal to a new copy of
\* itself, for which the path is a directory no more
DeepEqualityWitness ==
    /\ ret.op = "__eq__" /\ ret.arg = <<"copy">> /\ ret.val = BoolVal(FALSE)
    /\ heap[ret.obj]._is_dir = BoolVal(TRUE)
    /\ Answer(fs, heap[ret.obj].path, "is_dir", TRUE) = BoolVal(FALSE)

(***************************************************************************)
(* C15  Name derivation for edge paths.  from_path(p) names the entry by   *)
(* the basename of p when that is neither empty nor '.' nor '..', and      *)
(* otherwise by the basename of the canonical resolution of p, which is    *)
(* never the literal '.' or '..'.                                          *)
(***************************************************************************)
NameDerivation ==
    \A id \in DOMAIN heap :
        IF Basename(heap[id].path) \notin {Empty, Dot, DotDot}
        THEN heap[id].name = Basename(heap[id].path)
        ELSE /\ heap[id].name = Basename(Realpath(fs, heap[id].path))
             /\ heap[id].name \notin {Dot, DotDot}

\* from_path('..') in the directory /r/a gave the name 'r', and
\* from_path('/r/l/') the name of the link's target
NameDerivationWitness ==
    \E id \in DOMAIN heap :
        \/ heap[id].path = DotDot /\ heap[id].name = <<"r">>
        \/ heap[id].path = <<"/", "r", "/", "l", "/">> /\ heap[id].name = <<"a">>

\* this step is a from_root that returned a node
Rooted == chain = <<>> /\ chain' # <<>>

(***************************************************************************)
(* C16  Root construction.  from_root(x) returns a node with relative '',  *)
(* root the entry's path and real the canonical form of that path; the     *)
(* entry is x itself, the same object with its caches as they were and no  *)
(* existence check made, when x is a DirEntryReplacement or a native       *)
(* DirEntry, and is from_path(x) otherwise.                                *)
(***************************************************************************)
RootConstruction ==
    [][Rooted =>
          /\ Len(chain') = 1
          /\ chain'[1].relative = Empty
          /\ chain'[1].root = NodePath(heap', chain'[1])
          /\ chain'[1].real = Realpath(fs, chain'[1].root)
          /\ CASE ret'.arg = <<"DirEntryReplacement">> ->
                    /\ chain'[1].dir_entry = Ref(ret'.obj)
                    /\ ret'.obj \in DOMAIN heap
                    /\ heap' = heap /\ calls' = calls
               [] ret'.arg # Empty /\ ret'.arg[1] = "DirEntry" ->
                    /\ chain'[1].dir_entry = NativeOf(Tail(ret'.arg))
                    /\ heap' = heap /\ calls' = calls
               [] OTHER ->
                    /\ chain'[1].dir_entry = Ref(Len(heap) + 1)
                    /\ heap' = Append(heap, from_path(fs, ret'.arg).entry)]_vars

\* a root node that owns the entry it was given, with the cache that entry
\* had, for a path that had vanished when from_root was called
RootConstructionWitness ==
    /\ chain # <<>> /\ ret.op = "from_root" /\ ret.arg = <<"DirEntryReplacement">>
    /\ chain[1].dir_entry = Ref(1)
    /\ heap[1]._is_dir = BoolVal(TRUE)
    /\ ~OsExists(fs, chain[1].root)

\* this step is scandir() on the last node or next() on the sequence it gave
Enumerating == it' # it /\ it'.state \in {"active", "exhausted"}

(***************************************************************************)
(* C17  Enumeration does not disturb the parent and keeps root constant.   *)
(* scandir() on a node and the consumption of its children leave the node, *)
(* its ancestors and their entries as they were; each child is a new node  *)
(* with the parent's root that owns the handle yielded for it; so every    *)
(* node of a walk has the root of the walk's root node.                    *)
(***************************************************************************)
EnumerationKeepsParent ==
    [][/\ Enumerating =>
            /\ chain' = chain /\ heap' = heap
            /\ kids' = <<>> \/ SubSeq(kids', 1, Len(kids)) = kids
            /\ Len(kids') = Len(kids) + 1 =>
                  /\ Last(kids').root = Last(chain).root
                  /\ \E e \in it.pending \ it'.pending :
                        Last(kids').dir_entry = DirEntry(fs, it.path, e)
       /\ \A i \in DOMAIN chain' : chain'[i].root = chain'[1].root
       /\ \A k \in DOMAIN kids' : kids'[k].root = chain'[1].root]_vars

\* two children of a node below the root were yielded
EnumerationKeepsParentWitness ==
    /\ Len(chain) >= 2 /\ Len(kids) >= 2
    /\ Last(chain).relative # Empty
    /\ kids[2].root = chain[1].root

\* the path names a directory that may be read
ReadableDir(f, path) ==
    /\ Lookup(f, path, TRUE).err = "OK"
    /\ f[Lookup(f, path, TRUE).ino].kind = "dir"
    /\ f[Lookup(f, path, TRUE).ino].x

\* this step is scandir() on the last node
ScandirStep ==
    /\ chain # <<>> /\ chain' = chain
    /\ it.state # "active" /\ ~it.open
    /\ ret'.op = "scandir"
    /\ (ret' # ret \/ it' # it \/ kids' # kids)

\* this step is next() on the sequence
NextStep ==
    /\ chain' = chain
    /\ it.state \in {"active", "exhausted"} /\ it'.state \in {"active", "exhausted"}
    /\ ret'.op = "next"
    /\ (ret' # ret \/ it' # it \/ kids' # kids)

(***************************************************************************)
(* C18  scandir() is lazy and one-shot.  The directory is opened when      *)
(* scandir() is called: on a node that is no readable directory the call   *)
(* fails with the OS error and gives no child.  A child is built only when *)
(* it is consumed, one for each next(); no entry is yielded twice; an      *)
(* exhausted sequence yields nothing more and does not start again.        *)
(***************************************************************************)
LazyOneShot ==
    [][/\ ScandirStep =>
            /\ kids' = <<>>
            /\ IF ReadableDir(fs, absolute(Last(chain)))
               THEN /\ it'.state = "active" /\ it'.open
                    /\ it'.pending = fs[Lookup(fs, absolute(Last(chain)), TRUE).ino].ents
               ELSE /\ ret'.val.tag = "OSError"
                    /\ it'.state = "none" /\ ~it'.open
       /\ NextStep =>
            IF it.state = "active" /\ it.pending # {}
            THEN /\ Len(kids') = Len(kids) + 1
                 /\ SubSeq(kids', 1, Len(kids)) = kids
                 /\ it'.pending \subseteq it.pending
                 /\ Cardinality(it'.pending) = Cardinality(it.pending) - 1
                 /\ ret'.val.tag = "node"
            ELSE /\ kids' = kids
                 /\ it'.state = "exhausted" /\ it'.pending = {} /\ ~it'.open
                 /\ ret'.val.tag = "StopIteration"
       /\ \A j, k \in DOMAIN kids' :
             j # k => kids'[j].dir_entry # kids'[k].dir_entry
       /\ \A k \in DOMAIN kids' :
             \A e \in it'.pending : kids'[k].dir_entry # DirEntry(fs, it'.path, e)]_vars

\* the sequence for /r has yielded five children and is exhausted
LazyOneShotWitness ==
    /\ it.state = "exhausted" /\ ~it.open
    /\ Len(kids) = 5 /\ Len(chain) = 1
    /\ ret.op = "next" /\ ret.val.tag = "StopIteration"

(***************************************************************************)
(* C19  Existence is checked by following symlinks, and only in from_path. *)
(* from_path(p) succeeds exactly when the lookup of p that follows         *)
(* symlinks finds a target, so a dangling symlink is rejected with 'does   *)
(* not exist' although the directory entry is there; from_dir_entry, and   *)
(* with it the pickling of a node, asks the OS nothing and succeeds also   *)
(* for a dangling symlink and for a path that has vanished.                *)
(***************************************************************************)
ExistenceFollowed ==
    [][/\ (/\ ret'.op \in {"from_path", "from_root"} /\ IsAbs(ret'.arg)
           /\ (ret' # ret \/ heap' # heap \/ chain' # chain))
          => IF Lookup(fs, ret'.arg, TRUE).err = "OK"
             THEN /\ ~Raised(ret'.val)
                  /\ Len(heap') = Len(heap) + 1
                  /\ Last(heap').path = ret'.arg
             ELSE /\ ret'.val = IOError("does not exist")
                  /\ heap' = heap /\ chain' = chain
       /\ (ret'.op = "_getstate" /\ ret' # ret)
          => /\ ret'.val.tag = "state"
             /\ ret'.val.dir_entry =
                   DirEntryReplacement(NodePath(heap, Last(chain)), NodeName(heap, Last(chain)))
             /\ heap' = heap /\ calls' = calls]_vars

\* from_path rejected the symlink /r/l, which is there and whose target is gone
ExistenceFollowedWitness ==
    /\ ret.op = "from_path" /\ ret.arg = <<"/", "r", "/", "l">>
    /\ ret.val = IOError("does not exist")
    /\ OsLstat(fs, ret.arg).tag = "stat"
    /\ heap = <<>>

\* node.path is the text of node.absolute, which is join(root, relative)
PathIsAbsolute(h, n) ==
    /\ absolute(n) = Join(n.root, n.relative)
    /\ NodePath(h, n) = absolute(n)

\* absolute is join(root, '') and names the place path names
RootSameLocation(f, h, n) ==
    /\ absolute(n) = Join(n.root, Empty)
    /\ Normpath(absolute(n)) = Normpath(NodePath(h, n))
    /\ Lookup(f, absolute(n), TRUE) = Lookup(f, NodePath(h, n), TRUE)

(***************************************************************************)
(* C20  Path/absolute agreement.  For every node below the root that a     *)
(* sequence of scandir() descents produces, node.path is the same string   *)
(* as node.absolute = join(root, relative), also after the node was        *)
(* pickled and unpickled; for the root node absolute is join(root, ''),    *)
(* which names the same place as path, not always by the same string.      *)
(***************************************************************************)
PathAgreement ==
    /\ \A i \in DOMAIN chain :
          IF i > 1 THEN PathIsAbsolute(heap, chain[i])
          ELSE RootSameLocation(fs, heap, chain[i])
    /\ \A k \in DOMAIN kids : PathIsAbsolute(heap, kids[k])
    /\ copy # None =>
          IF copy.of > 1 THEN PathIsAbsolute(heap, copy.node)
          ELSE RootSameLocation(fs, heap, copy.node)

\* a node two levels below the root /r was unpickled; its path is its
\* absolute, while the root's absolute '/r/' is not the string of its path
PathAgreementWitness ==
    /\ copy # None /\ copy.of = 3
    /\ NodePath(heap, copy.node) = absolute(copy.node)
    /\ chain[1].root = <<"/", "r">>
    /\ absolute(chain[1]) # NodePath(heap, chain[1])
====
